---- MODULE Spec2Model ----
(***************************************************************************)
(* browsertunnel, tunnel.go: the DNS tunnel's fragment reassembly.         *)
(*                                                                         *)
(* A Go string is a sequence of one-character strings; the zero byte of a  *)
(* freshly made buffer is the token NUL.  A decoded payload is a sequence  *)
(* of byte values 0..255.                                                  *)
(***************************************************************************)
EXTENDS Integers, Sequences, FiniteSets, TLC

(***************************************************************************)
(* Bounds of the model.                                                    *)
(***************************************************************************)
\* Capacity of both channels.  tunnel.go:41 and :44 make them with 256; the
\* model keeps the two capacities equal and scales them so that a full
\* channel is reached.
QueueCap == 1
\* Number of DNS requests the handlers accept in one behaviour.
MaxQueries == 2
\* Last value of the clock.
MaxTime == 2
\* The expiration handed to newTunnel, in clock units.
Expiration == 1

(***************************************************************************)
(* strings                                                                 *)
(***************************************************************************)
NUL == "NUL"

HasSuffix(s, suffix) ==
    /\ Len(s) >= Len(suffix)
    /\ SubSeq(s, Len(s) - Len(suffix) + 1, Len(s)) = suffix

TrimSuffix(s, suffix) ==
    IF HasSuffix(s, suffix) THEN SubSeq(s, 1, Len(s) - Len(suffix)) ELSE s

\* strings.Split(s, sep) for a one-character separator: Split("", ".") is
\* the one-element list holding the empty string.
RECURSIVE Split(_, _)
Split(s, sep) ==
    IF \A i \in 1..Len(s) : s[i] # sep
    THEN <<s>>
    ELSE LET i == CHOOSE k \in 1..Len(s) :
                      s[k] = sep /\ \A j \in 1..(k - 1) : s[j] # sep
         IN  <<SubSeq(s, 1, i - 1)>> \o Split(SubSeq(s, i + 1, Len(s)), sep)

\* strings.Join(labels, "")
RECURSIVE Join(_)
Join(labels) ==
    IF labels = <<>> THEN <<>> ELSE Head(labels) \o Join(Tail(labels))

Digits == <<"0", "1", "2", "3", "4", "5", "6", "7", "8", "9">>

IsDigit(c) == \E i \in 1..10 : Digits[i] = c

DigitVal(c) == (CHOOSE i \in 1..10 : Digits[i] = c) - 1

RECURSIVE DecimalVal(_)
DecimalVal(s) ==
    IF s = <<>> THEN 0
    ELSE 10 * DecimalVal(SubSeq(s, 1, Len(s) - 1)) + DigitVal(s[Len(s)])

\* Atoi taking a label that is no number for 0, as C's atoi does
AtoiLenient(s) ==
    LET signed == Len(s) > 0 /\ s[1] \in {"+", "-"}
        body   == IF signed THEN Tail(s) ELSE s
    IN  IF Len(body) < 1 \/ \E i \in 1..Len(body) : ~IsDigit(body[i])
        THEN [err |-> FALSE, val |-> 0]
        ELSE [err |-> FALSE,
              val |-> IF s[1] = "-" THEN 0 - DecimalVal(body)
                      ELSE DecimalVal(body)]

\* strconv.Atoi: an optional sign, then one or more decimal digits.  The
\* range error of a value outside int is not reached: the labels of the model
\* have at most two digits.
Atoi(s) ==
    LET signed == Len(s) > 0 /\ s[1] \in {"+", "-"}
        body   == IF signed THEN Tail(s) ELSE s
    IN  IF Len(body) < 1 \/ \E i \in 1..Len(body) : ~IsDigit(body[i])
        THEN [err |-> TRUE, val |-> 0]
        ELSE [err |-> FALSE,
              val |-> IF s[1] = "-" THEN 0 - DecimalVal(body)
                      ELSE DecimalVal(body)]

(***************************************************************************)
(* parseDomain                                                             *)
(***************************************************************************)
NoFragment == [id |-> <<>>, totalSize |-> 0, offset |-> 0, data |-> <<>>]

parseDomain(topDomain, domain) ==
    LET suffix  == <<".">> \o topDomain
        payload == TrimSuffix(domain, suffix)
        labels  == Split(payload, ".")
    IN  IF ~HasSuffix(domain, suffix) THEN [err |-> TRUE, fg |-> NoFragment]
        ELSE IF Len(labels) < 4 THEN [err |-> TRUE, fg |-> NoFragment]
        ELSE IF Atoi(labels[2]).err THEN [err |-> TRUE, fg |-> NoFragment]
        ELSE IF Atoi(labels[3]).err THEN [err |-> TRUE, fg |-> NoFragment]
        ELSE [err |-> FALSE,
              fg  |-> [id        |-> labels[1],
                       totalSize |-> Atoi(labels[2]).val,
                       offset    |-> Atoi(labels[3]).val,
                       data      |-> Join(SubSeq(labels, 4, Len(labels)))]]

(***************************************************************************)
(* decoder: base32 over the alphabet a-z 2-7 with padding '0'              *)
(***************************************************************************)
Alphabet ==
    <<"a", "b", "c", "d", "e", "f", "g", "h", "i", "j", "k", "l", "m",
      "n", "o", "p", "q", "r", "s", "t", "u", "v", "w", "x", "y", "z",
      "2", "3", "4", "5", "6", "7">>

PadChar == "0"

InAlphabet(c) == \E i \in 1..32 : Alphabet[i] = c

\* decodeMap of the encoding: the 5-bit value of an alphabet character
DecodeMap(c) == (CHOOSE i \in 1..32 : Alphabet[i] = c) - 1

\* The inner loop of base32's decode over one quantum of up to 8
\* characters: j characters are in dbuf, src is what is left to read.
RECURSIVE decodeQuantum(_, _, _)
decodeQuantum(src, j, dbuf) ==
    IF j = 8 THEN [err |-> FALSE, dlen |-> 8, dbuf |-> dbuf, end |-> FALSE, rest |-> src]
    ELSE IF src = <<>>
    THEN \* the end is reached and padding is missing
         [err |-> TRUE, dlen |-> j, dbuf |-> dbuf, end |-> FALSE, rest |-> src]
    ELSE LET in   == Head(src)
             rest == Tail(src)
         IN  IF in = PadChar /\ j >= 2 /\ Len(rest) < 8
             THEN [err  |-> \/ Len(rest) + j < 8 - 1
                            \/ \E k \in 0..(8 - 1 - j - 1) :
                                   Len(rest) > k /\ rest[k + 1] # PadChar
                            \/ j \in {1, 3, 6},
                   dlen |-> j, dbuf |-> dbuf, end |-> TRUE, rest |-> rest]
             ELSE IF ~InAlphabet(in)
             THEN [err |-> TRUE, dlen |-> j, dbuf |-> dbuf, end |-> FALSE, rest |-> rest]
             ELSE decodeQuantum(rest, j + 1, Append(dbuf, DecodeMap(in)))

\* The switch that packs 8 5-bit blocks into up to 5 bytes (uint8 arithmetic).
Pack(dbuf, dlen) ==
    LET d(i) == IF i + 1 <= Len(dbuf) THEN dbuf[i + 1] ELSE 0
        b0 == d(0) * 8 + (d(1) \div 4)
        b1 == (d(1) % 4) * 64 + d(2) * 2 + (d(3) \div 16)
        b2 == (d(3) % 16) * 16 + (d(4) \div 2)
        b3 == (d(4) % 2) * 128 + d(5) * 4 + (d(6) \div 8)
        b4 == (d(6) % 8) * 32 + d(7)
    IN  CASE dlen = 8 -> <<b0, b1, b2, b3, b4>>
          [] dlen = 7 -> <<b0, b1, b2, b3>>
          [] dlen = 5 -> <<b0, b1, b2>>
          [] dlen = 4 -> <<b0, b1>>
          [] dlen = 2 -> <<b0>>
          [] OTHER    -> <<>>

RECURSIVE decode(_)
decode(src) ==
    IF src = <<>> THEN [err |-> FALSE, dec |-> <<>>]
    ELSE LET q == decodeQuantum(src, 0, <<>>)
         IN  IF q.err THEN [err |-> TRUE, dec |-> <<>>]
             ELSE IF q.end THEN [err |-> FALSE, dec |-> Pack(q.dbuf, q.dlen)]
             ELSE LET more == decode(q.rest)
                  IN  IF more.err THEN more
                      ELSE [err |-> FALSE, dec |-> Pack(q.dbuf, q.dlen) \o more.dec]

stripNewlines(s) == SelectSeq(s, LAMBDA c : c \notin {"\r", "\n"})

DecodeString(s) == decode(stripNewlines(s))

(***************************************************************************)
(* fragmentList.assemble                                                   *)
(***************************************************************************)
\* copy(buf[offset:], data), for 0 <= offset < Len(buf)
CopyAt(buf, offset, data) ==
    [i \in 1..Len(buf) |->
        IF i > offset /\ i - offset <= Len(data) THEN data[i - offset] ELSE buf[i]]

\* The orders in which range can walk a map with the keys S
Orders(S) ==
    {o \in [1..Cardinality(S) -> S] : \A i, j \in 1..Cardinality(S) : o[i] = o[j] => i = j}

RECURSIVE CopyAll(_, _, _)
CopyAll(buf, fragments, order) ==
    IF order = <<>> THEN buf
    ELSE CopyAll(CopyAt(buf, fragments[Head(order)].offset, fragments[Head(order)].data),
                 fragments, Tail(order))

\* What assemble can return for fl: "ok" with the decoded string, "err", or
\* "panic" (make with a negative length, or buf[offset:] with a negative
\* offset).  The map is walked in an unspecified order, so a list holding
\* both a fragment past the end and a fragment with a negative offset may
\* return the error or panic, and overlapping fragments may be copied in
\* any order.
assemble(fl) ==
    LET offs == DOMAIN fl.fragments
        over == {o \in offs : fl.fragments[o].offset >= fl.totalSize}
        neg  == {o \in offs : fl.fragments[o].offset < 0}
        zero == [i \in 1..fl.totalSize |-> NUL]
        bufs == {CopyAll(zero, fl.fragments, o) : o \in Orders(offs)}
    IN  IF fl.totalSize < 0 THEN {[kind |-> "panic", msg |-> <<>>]}
        ELSE IF over # {} \/ neg # {}
        THEN {r \in {[kind |-> "err", msg |-> <<>>], [kind |-> "panic", msg |-> <<>>]} :
                 \/ r.kind = "err" /\ over # {}
                 \/ r.kind = "panic" /\ neg # {}}
        ELSE {IF DecodeString(buf).err
              THEN [kind |-> "err", msg |-> <<>>]
              ELSE [kind |-> "ok", msg |-> DecodeString(buf).dec] : buf \in bufs}

(***************************************************************************)
(* The sender's side of the wire sub-protocol, used to build inputs:       *)
(* <id>.<totalSize>.<offset>.<data>.<topDomain>, data being a chunk of the *)
(* base32 text of the payload.                                             *)
(***************************************************************************)
TopDomain == <<"t", ".", "c">>

\* bit k (from 0, most significant first) of the byte string, 0 past its end
BitAt(bytes, k) ==
    IF k >= 8 * Len(bytes) THEN 0
    ELSE (bytes[(k \div 8) + 1] \div (2 ^ (7 - (k % 8)))) % 2

Encode(bytes) ==
    LET nchars == (8 * Len(bytes) + 4) \div 5
        total  == 8 * ((Len(bytes) + 4) \div 5)
        val(j) == 16 * BitAt(bytes, 5 * j) + 8 * BitAt(bytes, 5 * j + 1)
                  + 4 * BitAt(bytes, 5 * j + 2) + 2 * BitAt(bytes, 5 * j + 3)
                  + BitAt(bytes, 5 * j + 4)
    IN  [i \in 1..total |-> IF i <= nchars THEN Alphabet[val(i - 1) + 1] ELSE PadChar]

RECURSIVE Itoa(_)
Itoa(n) ==
    IF n < 10 THEN <<Digits[n + 1]>> ELSE Itoa(n \div 10) \o <<Digits[(n % 10) + 1]>>

FormatName(id, totalSize, offset, data) ==
    id \o <<".">> \o Itoa(totalSize) \o <<".">> \o Itoa(offset) \o <<".">>
       \o data \o <<".">> \o TopDomain

(***************************************************************************)
(* Inputs                                                                  *)
(***************************************************************************)
\* Number of concurrent ServeDNS calls the DNS server makes.
NumHandlers == 1

Handlers == 1..NumHandlers

Hi == <<104, 105>>

\* "hi" in one fragment, and as the two halves of its 8-character text
Whole == FormatName(<<"m">>, 8, 0, Encode(Hi))
Half1 == FormatName(<<"m">>, 8, 0, SubSeq(Encode(Hi), 1, 4))
Half2 == FormatName(<<"m">>, 8, 4, SubSeq(Encode(Hi), 5, 8))
\* a second transfer whose only fragment lies past its declared size
Past == FormatName(<<"n">>, 4, 4, <<"a", "a", "a", "a">>)
\* size -1
Negative == <<"m", ".", "-", "1", ".", "0", ".", "a", "a", ".">> \o TopDomain
\* three labels
FewLabels == <<"m", ".", "8", ".", "0", ".">> \o TopDomain
\* size and offset that are no numbers
BadSize == <<"m", ".", "x", ".", "0", ".">> \o Encode(Hi) \o <<".">> \o TopDomain
BadOffset == <<"m", ".", "8", ".", ".">> \o Encode(Hi) \o <<".">> \o TopDomain
\* another top domain
OtherTop == <<"m", ".", "8", ".", "0", ".">> \o Encode(Hi) \o <<".", "t", ".", "d">>

NoRequest == [hasq |-> FALSE, name |-> <<>>, qtype |-> "A"]

\* The DNS messages handed to ServeDNS: an A question for each name
ARequests(names) == {[hasq |-> TRUE, name |-> n, qtype |-> "A"] : n \in names}

\* those, one question of another type, and a message without a question
Requests(names) ==
    ARequests(names) \cup {[hasq |-> TRUE, name |-> Whole, qtype |-> "AAAA"], NoRequest}

Sink == "blackhole-1.iana.org."

(***************************************************************************)
(* State                                                                   *)
(***************************************************************************)
VARIABLES
    Messages,     \* tun.Messages: the channel of decoded payloads
    domains,      \* tun.domains: the channel of query names
    fgLists,      \* tun.fgLists: id -> fragmentList
    fgListsLock,  \* tun.fgListsLock: "free", or "worker" while listenDomains holds it
    Cancel,       \* tun.Cancel: "open" or "closed"
    wpc,          \* listenDomains: "select", "lock", "send", "done", "panic"
    wdomain,      \* listenDomains: the name received from tun.domains
    wmsg,         \* listenDomains: the assembled msg being sent
    spc,          \* removeExpiredMessages: "select", "lock", "done"
    now,          \* time.Now()
    hpc,          \* ServeDNS call of each handler: "idle", "push", "reply"
    hreq,         \* ServeDNS: the request r of each handler
    replies,      \* the messages each handler wrote for its last request
    asked,        \* number of requests handed to ServeDNS so far
    pushed,       \* history: the names sent on tun.domains, in order
    taken,        \* history: how many names listenDomains received
    emitted,      \* history: [id, msg] of every send on tun.Messages, in order
    plan,         \* the scripted runs: [kind, payload, scripts]
    run,          \* index of the script being fed
    pos,          \* index of the next name of the script
    results       \* what each finished run emitted and left in the store

vars == <<Messages, domains, fgLists, fgListsLock, Cancel, wpc, wdomain, wmsg,
          spc, now, hpc, hreq, replies, asked, pushed, taken, emitted,
          plan, run, pos, results>>

tunvars == <<Messages, domains, fgLists, fgListsLock, Cancel>>
wvars   == <<wpc, wdomain, wmsg>>
hvars   == <<hpc, hreq, replies, asked>>
runvars == <<plan, run, pos, results>>

NoPlan == [kind |-> "none", payload |-> <<>>, scripts |-> <<>>]

\* newTunnel: both channels empty, the map empty, both goroutines started
newTunnel ==
    /\ Messages = <<>>
    /\ domains = <<>>
    /\ fgLists = <<>>
    /\ fgListsLock = "free"
    /\ Cancel = "open"
    /\ wpc = "select"
    /\ wdomain = <<>>
    /\ wmsg = <<>>
    /\ spc = "select"

Init ==
    /\ newTunnel
    /\ now = 0
    /\ hpc = [h \in Handlers |-> "idle"]
    /\ hreq = [h \in Handlers |-> NoRequest]
    /\ replies = [h \in Handlers |-> <<>>]
    /\ asked = 0
    /\ pushed = <<>>
    /\ taken = 0
    /\ emitted = <<>>
    /\ plan = NoPlan
    /\ run = 1
    /\ pos = 1
    /\ results = <<>>

\* An unrecovered panic in a goroutine ends the process.
Running == wpc # "panic"

(***************************************************************************)
(* listenDomains                                                           *)
(***************************************************************************)
\* StoreFragment dropping a fragment that arrives after one of a higher offset
StoreFragmentInOrder(lists, fg, t) ==
    LET old == IF fg.id \in DOMAIN lists THEN lists[fg.id]
               ELSE [totalSize |-> 0, fragments |-> <<>>, expiresAt |-> t + Expiration]
        late == \E o \in DOMAIN old.fragments : o > fg.offset
        fl  == [totalSize |-> fg.totalSize,
                fragments |-> IF late THEN old.fragments
                              ELSE (fg.offset :> fg) @@ old.fragments,
                expiresAt |-> t + Expiration]
    IN  (fg.id :> fl) @@ lists

\* StoreFragment keeping the totalSize the list's first fragment declared
StoreFragmentFirstSize(lists, fg, t) ==
    LET old == IF fg.id \in DOMAIN lists THEN lists[fg.id]
               ELSE [totalSize |-> fg.totalSize, fragments |-> <<>>,
                     expiresAt |-> t + Expiration]
        fl  == [totalSize |-> old.totalSize,
                fragments |-> (fg.offset :> fg) @@ old.fragments,
                expiresAt |-> t + Expiration]
    IN  (fg.id :> fl) @@ lists

\* StoreFragment setting expiresAt only when it makes the list
StoreFragmentKeepExpiry(lists, fg, t) ==
    LET old == IF fg.id \in DOMAIN lists THEN lists[fg.id]
               ELSE [totalSize |-> 0, fragments |-> <<>>, expiresAt |-> t + Expiration]
        fl  == [totalSize |-> fg.totalSize,
                fragments |-> (fg.offset :> fg) @@ old.fragments,
                expiresAt |-> old.expiresAt]
    IN  (fg.id :> fl) @@ lists

\* lines 114-124: look the list up or make it, then store the fragment
StoreFragment(lists, fg, t) ==
    LET old == IF fg.id \in DOMAIN lists THEN lists[fg.id]
               ELSE [totalSize |-> 0, fragments |-> <<>>, expiresAt |-> t + Expiration]
        fl  == [totalSize |-> fg.totalSize,
                fragments |-> (fg.offset :> fg) @@ old.fragments,
                expiresAt |-> t + Expiration]
    IN  (fg.id :> fl) @@ lists

\* lines 126-129
RECURSIVE TotalBytes(_)
TotalBytes(fragments) ==
    IF DOMAIN fragments = {} THEN 0
    ELSE LET o == CHOOSE x \in DOMAIN fragments : TRUE
         IN  Len(fragments[o].data)
                 + TotalBytes([x \in DOMAIN fragments \ {o} |-> fragments[x]])

\* delete(tun.fgLists, id)
Delete(lists, id) == [x \in DOMAIN lists \ {id} |-> lists[x]]

\* What each step of listenDomains waits for: a closed Cancel or a name on
\* tun.domains at the select, the lock, room on tun.Messages.
CanListenCancel == wpc = "select" /\ Cancel = "closed"
CanListenRecv   == wpc = "select" /\ domains # <<>>
CanListenHandle == wpc = "lock" /\ fgListsLock = "free"
CanListenSend   == wpc = "send" /\ Len(Messages) < QueueCap

\* case <-tun.Cancel
ListenCancel ==
    /\ CanListenCancel
    /\ wpc' = "done"
    /\ UNCHANGED <<tunvars, wdomain, wmsg, spc, now, hvars, pushed, taken, emitted, runvars>>

\* ListenRecv receiving the next name also while the last one is being sent
ListenRecvBusy ==
    /\ wpc \in {"select", "send"}
    /\ domains # <<>>
    /\ wdomain' = Head(domains)
    /\ domains' = Tail(domains)
    /\ taken' = taken + 1
    /\ wpc' = "lock"
    /\ UNCHANGED <<Messages, fgLists, fgListsLock, Cancel, wmsg, spc, now, hvars,
                   pushed, emitted, runvars>>

\* case domain := <-tun.domains
ListenRecv ==
    /\ CanListenRecv
    /\ wdomain' = Head(domains)
    /\ domains' = Tail(domains)
    /\ taken' = taken + 1
    /\ wpc' = "lock"
    /\ UNCHANGED <<Messages, fgLists, fgListsLock, Cancel, wmsg, spc, now, hvars,
                   pushed, emitted, runvars>>

\* ListenHandle deleting the list when its assembly fails
ListenHandleDropFailed ==
    /\ CanListenHandle
    /\ LET p == parseDomain(TopDomain, wdomain)
           lists == StoreFragment(fgLists, p.fg, now)
           fl == lists[p.fg.id]
       IN  IF p.err
           THEN /\ wpc' = "select"
                /\ UNCHANGED <<fgLists, fgListsLock, wmsg>>
           ELSE IF TotalBytes(fl.fragments) >= fl.totalSize
                THEN \E r \in assemble(fl) :
                         CASE r.kind = "ok" ->
                                 /\ fgLists' = lists
                                 /\ wmsg' = r.msg
                                 /\ wpc' = "send"
                                 /\ fgListsLock' = "worker"
                           [] r.kind = "err" ->
                                 /\ fgLists' = Delete(lists, p.fg.id)
                                 /\ wpc' = "select"
                                 /\ UNCHANGED <<fgListsLock, wmsg>>
                           [] OTHER ->
                                 /\ fgLists' = lists
                                 /\ wpc' = "panic"
                                 /\ UNCHANGED <<fgListsLock, wmsg>>
                ELSE /\ fgLists' = lists
                     /\ wpc' = "select"
                     /\ UNCHANGED <<fgListsLock, wmsg>>
    /\ UNCHANGED <<Messages, domains, Cancel, wdomain, spc, now, hvars,
                   pushed, taken, emitted, runvars>>

\* lines 105-136: from Lock to the return of the closure, or to the send on
\* tun.Messages, which is made with the lock held
ListenHandle ==
    /\ CanListenHandle
    /\ LET p == parseDomain(TopDomain, wdomain)
           lists == StoreFragment(fgLists, p.fg, now)
           fl == lists[p.fg.id]
       IN  IF p.err
           THEN /\ wpc' = "select"
                /\ UNCHANGED <<fgLists, fgListsLock, wmsg>>
           ELSE /\ fgLists' = lists
                /\ IF TotalBytes(fl.fragments) >= fl.totalSize
                   THEN \E r \in assemble(fl) :
                            CASE r.kind = "ok" ->
                                    /\ wmsg' = r.msg
                                    /\ wpc' = "send"
                                    /\ fgListsLock' = "worker"
                              [] r.kind = "err" ->
                                    /\ wpc' = "select"
                                    /\ UNCHANGED <<fgListsLock, wmsg>>
                              [] OTHER ->
                                    /\ wpc' = "panic"
                                    /\ UNCHANGED <<fgListsLock, wmsg>>
                   ELSE /\ wpc' = "select"
                        /\ UNCHANGED <<fgListsLock, wmsg>>
    /\ UNCHANGED <<Messages, domains, Cancel, wdomain, spc, now, hvars,
                   pushed, taken, emitted, runvars>>

\* ListenSend without the delete
ListenSendKeep ==
    /\ CanListenSend
    /\ LET id == parseDomain(TopDomain, wdomain).fg.id
       IN  /\ Messages' = Append(Messages, wmsg)
           /\ emitted' = Append(emitted, [id |-> id, msg |-> wmsg])
    /\ fgListsLock' = "free"
    /\ wpc' = "select"
    /\ UNCHANGED <<fgLists, domains, Cancel, wdomain, wmsg, spc, now, hvars, pushed,
                   taken, runvars>>

\* lines 137-138 and the deferred Unlock
ListenSend ==
    /\ CanListenSend
    /\ LET id == parseDomain(TopDomain, wdomain).fg.id
       IN  /\ Messages' = Append(Messages, wmsg)
           /\ emitted' = Append(emitted, [id |-> id, msg |-> wmsg])
           /\ fgLists' = Delete(fgLists, id)
    /\ fgListsLock' = "free"
    /\ wpc' = "select"
    /\ UNCHANGED <<domains, Cancel, wdomain, wmsg, spc, now, hvars, pushed, taken, runvars>>

(***************************************************************************)
(* removeExpiredMessages                                                   *)
(***************************************************************************)
\* removeExpired deleting also the entries whose expiresAt is t
removeExpiredInclusive(lists, t) ==
    [x \in {y \in DOMAIN lists : lists[y].expiresAt > t} |-> lists[x]]

\* lines 154-159
removeExpired(lists, t) ==
    [x \in {y \in DOMAIN lists : ~(lists[y].expiresAt < t)} |-> lists[x]]

\* What each step of removeExpiredMessages waits for
CanSweepCancel == spc = "select" /\ Cancel = "closed"
CanSweepTick   == Running /\ spc = "select"
CanSweepRun    == Running /\ spc = "lock" /\ fgListsLock = "free"

SweepCancel ==
    /\ CanSweepCancel
    /\ spc' = "done"
    /\ UNCHANGED <<tunvars, wvars, now, hvars, pushed, taken, emitted, runvars>>

\* case <-ticker.C: the ticker fires at some time
SweepTick ==
    /\ CanSweepTick
    /\ spc' = "lock"
    /\ UNCHANGED <<tunvars, wvars, now, hvars, pushed, taken, emitted, runvars>>

\* lines 153-160: Lock, the sweep at time.Now(), Unlock; nothing else can
\* touch the map in between
SweepRun ==
    /\ CanSweepRun
    /\ fgLists' = removeExpired(fgLists, now)
    /\ spc' = "select"
    /\ UNCHANGED <<Messages, domains, fgListsLock, Cancel, wvars, now, hvars,
                   pushed, taken, emitted, runvars>>

(***************************************************************************)
(* ServeDNS                                                                *)
(***************************************************************************)
\* Serve sending the name of a question of any type on tun.domains
ServeAnyType(h, r) ==
    /\ Running
    /\ hpc[h] = "idle"
    /\ asked' = asked + 1
    /\ hreq' = [hreq EXCEPT ![h] = r]
    /\ replies' = [replies EXCEPT ![h] = <<>>]
    /\ hpc' = [hpc EXCEPT ![h] = IF ~r.hasq THEN "idle" ELSE "push"]
    /\ UNCHANGED <<tunvars, wvars, spc, now, pushed, taken, emitted>>

\* Serve going on to the reply for a message without a question
ServeNoQuestionReplies(h, r) ==
    /\ Running
    /\ hpc[h] = "idle"
    /\ asked' = asked + 1
    /\ hreq' = [hreq EXCEPT ![h] = r]
    /\ replies' = [replies EXCEPT ![h] = <<>>]
    /\ hpc' = [hpc EXCEPT ![h] = IF r.hasq /\ r.qtype = "A" THEN "push" ELSE "reply"]
    /\ UNCHANGED <<tunvars, wvars, spc, now, pushed, taken, emitted>>

\* lines 165-171: ServeDNS is called with r
Serve(h, r) ==
    /\ Running
    /\ hpc[h] = "idle"
    /\ asked' = asked + 1
    /\ hreq' = [hreq EXCEPT ![h] = r]
    /\ replies' = [replies EXCEPT ![h] = <<>>]
    /\ hpc' = [hpc EXCEPT ![h] = IF ~r.hasq THEN "idle"
                                 ELSE IF r.qtype = "A" THEN "push" ELSE "reply"]
    /\ UNCHANGED <<tunvars, wvars, spc, now, pushed, taken, emitted>>

\* a request arrives from the network
ServeDNS(h, r) ==
    /\ asked < MaxQueries
    /\ Serve(h, r)
    /\ UNCHANGED runvars

\* What a handler waits for at its send on tun.domains and at its reply
CanServePush(h)  == Running /\ hpc[h] = "push" /\ Len(domains) < QueueCap
CanServeReply(h) == Running /\ hpc[h] = "reply"

\* ServePush dropping the name when the channel is full
ServePushDrop(h) ==
    /\ Running
    /\ hpc[h] = "push"
    /\ IF Len(domains) < QueueCap
       THEN /\ domains' = Append(domains, hreq[h].name)
            /\ pushed' = Append(pushed, hreq[h].name)
       ELSE UNCHANGED <<domains, pushed>>
    /\ hpc' = [hpc EXCEPT ![h] = "reply"]
    /\ UNCHANGED <<Messages, fgLists, fgListsLock, Cancel, wvars, spc, now,
                   hreq, replies, asked, taken, emitted, runvars>>

\* line 172
ServePush(h) ==
    /\ CanServePush(h)
    /\ domains' = Append(domains, hreq[h].name)
    /\ pushed' = Append(pushed, hreq[h].name)
    /\ hpc' = [hpc EXCEPT ![h] = "reply"]
    /\ UNCHANGED <<Messages, fgLists, fgListsLock, Cancel, wvars, spc, now,
                   hreq, replies, asked, taken, emitted, runvars>>

\* lines 175-186
ServeReply(h) ==
    /\ CanServeReply(h)
    /\ replies' = [replies EXCEPT ![h] =
                      Append(@, [name |-> hreq[h].name, rrtype |-> "CNAME",
                                 ttl |-> 0, target |-> Sink])]
    /\ hpc' = [hpc EXCEPT ![h] = "idle"]
    /\ UNCHANGED <<tunvars, wvars, spc, now, hreq, asked, pushed, taken, emitted, runvars>>

(***************************************************************************)
(* The environment                                                         *)
(***************************************************************************)
\* close(tun.Cancel)
CloseCancel ==
    /\ Running
    /\ Cancel = "open"
    /\ Cancel' = "closed"
    /\ UNCHANGED <<Messages, domains, fgLists, fgListsLock, wvars, spc, now, hvars,
                   pushed, taken, emitted, runvars>>

\* the consumer receives from tun.Messages
Consume ==
    /\ Running
    /\ Messages # <<>>
    /\ Messages' = Tail(Messages)
    /\ UNCHANGED <<domains, fgLists, fgListsLock, Cancel, wvars, spc, now, hvars,
                   pushed, taken, emitted, runvars>>

Tick ==
    /\ now < MaxTime
    /\ now' = now + 1
    /\ UNCHANGED <<tunvars, wvars, spc, hvars, pushed, taken, emitted, runvars>>

SysNext(requests) ==
    \/ \E h \in Handlers : \E r \in requests : ServeDNS(h, r)
    \/ \E h \in Handlers : ServePush(h)
    \/ \E h \in Handlers : ServeReply(h)
    \/ ListenCancel
    \/ ListenRecv
    \/ ListenHandle
    \/ ListenSend
    \/ SweepCancel
    \/ SweepTick
    \/ SweepRun
    \/ CloseCancel
    \/ Consume
    \/ Tick

Next == SysNext(Requests({Whole, Half1, Half2, Past}))

Spec == Init /\ [][Next]_vars

BadNext ==
    SysNext(ARequests({Whole, Half1, Negative, FewLabels, BadSize, BadOffset, OtherTop}))

BadSpec == Init /\ [][BadNext]_vars

(***************************************************************************)
(* Retries: a transfer whose assembly fails, and the fragment that mends   *)
(* it.                                                                     *)
(***************************************************************************)
\* a fragment of 4 characters declaring the size 4: its text does not decode
Undecodable == FormatName(<<"n">>, 4, 0, SubSeq(Encode(Hi), 1, 4))
\* the whole text of "hi" for the same id
Fix == FormatName(<<"n">>, 8, 0, Encode(Hi))

RetryNext == SysNext(ARequests({Past, Undecodable, Fix}))

RetrySpec == Init /\ [][RetryNext]_vars

(***************************************************************************)
(* The system under load: more requests, for two transfers only, so that   *)
(* the outbound channel fills while another transfer waits in the store.   *)
(***************************************************************************)
\* Number of DNS requests in a behaviour of LoadSpec.
LoadQueries == 3

LoadServeDNS(h, r) ==
    /\ asked < LoadQueries
    /\ Serve(h, r)
    /\ UNCHANGED runvars

LoadNext ==
    \/ \E h \in Handlers : \E r \in ARequests({Whole, Past}) : LoadServeDNS(h, r)
    \/ \E h \in Handlers : ServePush(h)
    \/ \E h \in Handlers : ServeReply(h)
    \/ ListenCancel
    \/ ListenRecv
    \/ ListenHandle
    \/ ListenSend
    \/ SweepCancel
    \/ SweepTick
    \/ SweepRun
    \/ CloseCancel
    \/ Consume
    \/ Tick

LoadSpec == Init /\ [][LoadNext]_vars

\* a goroutine can take a step
CanWorkerStep == CanListenCancel \/ CanListenRecv \/ CanListenHandle \/ CanListenSend

CanSweepStep == CanSweepCancel \/ CanSweepTick \/ CanSweepRun

(***************************************************************************)
(* Scripted runs: a plan is a list of scripts, each a list of names that   *)
(* one sender issues in order to a tunnel of its own, with no sweep and no *)
(* cancellation in between.  What each run emitted and left in the store   *)
(* is kept in results.                                                     *)
(***************************************************************************)
\* Most chunks a blob is split into.
MaxChunks == 3
\* Most extra copies of a retransmitted fragment.
MaxDup == 2

Payloads == {<<>>, <<104>>, Hi, <<0, 255, 16>>, <<104, 101, 108, 108, 111>>}

\* the sets of places where a text of n characters is cut
CutSets(n) == {C \in SUBSET (1..(n - 1)) : Cardinality(C) < MaxChunks}

\* the names of the chunks of blob cut at cuts; the empty blob is one empty chunk
SplitNames(id, blob, cuts) ==
    LET B == cuts \cup {0, Len(blob)}
        next(lo) == CHOOSE hi \in B : hi > lo /\ \A b \in B : b > lo => b >= hi
    IN  IF blob = <<>> THEN {FormatName(id, 0, 0, <<>>)}
        ELSE {FormatName(id, Len(blob), lo, SubSeq(blob, lo + 1, next(lo))) :
                 lo \in B \ {Len(blob)}}

RoundTripPlans ==
    UNION {UNION {{[kind |-> "rt", payload |-> P, scripts |-> <<o>>] :
                      o \in Orders(SplitNames(<<"m">>, Encode(P), C))} :
                  C \in CutSets(Len(Encode(P)))} :
           P \in Payloads}

\* fragments with the id m: slices of the text of "hi" declaring its size 8,
\* one slice declaring the size 4, and one fragment of another text
Pool ==
    {FormatName(<<"m">>, 8, sl[1], SubSeq(Encode(Hi), sl[1] + 1, sl[2])) :
        sl \in {<<0, 4>>, <<4, 8>>, <<0, 8>>, <<0, 2>>, <<2, 8>>}}
        \cup {FormatName(<<"m">>, 4, 0, SubSeq(Encode(Hi), 1, 4)),
              FormatName(<<"m">>, 8, 4, <<"a", "a", "a", "a">>)}

\* one order of a set of fragments, and any order of it (the same one too)
PermPlans ==
    UNION {{[kind |-> "perm", payload |-> Hi,
             scripts |-> <<CHOOSE o1 \in Orders(S) : TRUE, o2>>] : o2 \in Orders(S)} :
           S \in {T \in SUBSET Pool : Cardinality(T) \in 1..MaxChunks}}

\* script o with k more copies of its i-th name put in after position at
WithDup(o, i, k, at) ==
    SubSeq(o, 1, at) \o [j \in 1..k |-> o[i]] \o SubSeq(o, at + 1, Len(o))

IdemPlans ==
    UNION {{[kind |-> "idem", payload |-> Hi,
             scripts |-> <<WithDup(o, x[1], x[2], x[3]), o>>] :
               x \in (1..Len(o)) \X (1..MaxDup) \X (0..Len(o))} :
           o \in UNION {Orders(SplitNames(<<"m">>, Encode(Hi), C)) :
                           C \in {D \in CutSets(8) : Cardinality(D) < 2}}}

InitRun(plans) ==
    /\ newTunnel
    /\ now = 0
    /\ hpc = [h \in Handlers |-> "idle"]
    /\ hreq = [h \in Handlers |-> NoRequest]
    /\ replies = [h \in Handlers |-> <<>>]
    /\ asked = 0
    /\ pushed = <<>>
    /\ taken = 0
    /\ emitted = <<>>
    /\ plan \in plans
    /\ run = 1
    /\ pos = 1
    /\ results = <<>>

\* the sender issues the next name of the script
Feed ==
    /\ run <= Len(plan.scripts)
    /\ pos <= Len(plan.scripts[run])
    /\ Serve(1, [hasq |-> TRUE, name |-> plan.scripts[run][pos], qtype |-> "A"])
    /\ pos' = pos + 1
    /\ UNCHANGED <<plan, run, results>>

\* the script is through and the tunnel at rest: its outcome is recorded and
\* the next script gets a new tunnel
NewRun ==
    /\ run <= Len(plan.scripts)
    /\ pos > Len(plan.scripts[run])
    /\ \A h \in Handlers : hpc[h] = "idle"
    /\ domains = <<>>
    /\ wpc = "select"
    /\ results' = Append(results, [emitted |-> emitted, store |-> fgLists])
    /\ run' = run + 1
    /\ pos' = 1
    /\ Messages' = <<>>
    /\ domains' = <<>>
    /\ fgLists' = <<>>
    /\ fgListsLock' = "free"
    /\ wdomain' = <<>>
    /\ wmsg' = <<>>
    /\ UNCHANGED <<Cancel, wpc, spc>>
    /\ pushed' = <<>>
    /\ taken' = 0
    /\ emitted' = <<>>
    /\ UNCHANGED <<now, hvars, plan>>

RunNext ==
    \/ Feed
    \/ ServePush(1)
    \/ ServeReply(1)
    \/ ListenRecv
    \/ ListenHandle
    \/ ListenSend
    \/ Consume
    \/ NewRun

RunSpec == InitRun(RoundTripPlans \cup PermPlans \cup IdemPlans) /\ [][RunNext]_vars

Finished == plan.kind # "none" /\ run > Len(plan.scripts)

(***************************************************************************)
(* Claims                                                                  *)
(***************************************************************************)
Range(seq) == {seq[i] : i \in 1..Len(seq)}

\* C1: at most one payload is ever sent on Messages for a given transfer id.
AtMostOnce ==
    \A i, j \in 1..Len(emitted) : emitted[i].id = emitted[j].id => i = j

\* C2: the chunks of the encoded text of any payload, the empty one included,
\* ingested in any order, lead to exactly one emission, of the payload, and
\* leave the id out of the store.
RoundTrip ==
    (Finished /\ plan.kind = "rt") =>
        /\ results[1].emitted = <<[id |-> <<"m">>, msg |-> plan.payload]>>
        /\ <<"m">> \notin DOMAIN results[1].store

\* C2, for the payloads that are not empty
RoundTripNonEmpty == plan.payload # <<>> => RoundTrip

\* C3: a script with more copies of one of its fragments emits the same set
\* of payloads as the script without them, and no second payload for the id.
IdempotentRetransmission ==
    (Finished /\ plan.kind = "idem") =>
        /\ Range(results[1].emitted) = Range(results[2].emitted)
        /\ Len(results[1].emitted) <= 1

\* the fragments a script's names parse to
Fragments(script) == {parseDomain(TopDomain, script[i]).fg : i \in 1..Len(script)}

\* fragments of one transfer: slices of one text, none empty, at different
\* offsets, each declaring the length of that text
OneTransfer(fgs) ==
    /\ \A f, g \in fgs : f.totalSize = g.totalSize
    /\ \A f \in fgs :
           Len(f.data) > 0 /\ f.offset >= 0 /\ f.offset + Len(f.data) <= f.totalSize
    /\ \A f, g \in fgs : f # g => f.offset # g.offset
    /\ \A f, g \in fgs : \A i \in 1..Len(f.data) : \A k \in 1..Len(g.data) :
           f.offset + i = g.offset + k => f.data[i] = g.data[k]

\* C4: two orders of one set of fragments with the same id emit the same
\* payloads.
OutOfOrder ==
    (Finished /\ plan.kind = "perm") => results[1].emitted = results[2].emitted

\* C4 as amended: two orders of one set of fragments that are slices of one
\* text, none empty, at pairwise different offsets and all declaring the
\* length of that text, emit the same payloads.
OutOfOrderOneTransfer ==
    (Finished /\ plan.kind = "perm" /\ OneTransfer(Fragments(plan.scripts[1]))) =>
        results[1].emitted = results[2].emitted

\* C4: both halves of "hi", in the two orders, each run emitting "hi"
OutOfOrderWitness ==
    /\ Finished
    /\ plan.kind = "perm"
    /\ Len(plan.scripts[1]) = 2
    /\ plan.scripts[2] = <<plan.scripts[1][2], plan.scripts[1][1]>>
    /\ Range(plan.scripts[1]) = {Half1, Half2}
    /\ OneTransfer(Fragments(plan.scripts[1]))
    /\ results[1].emitted = <<[id |-> <<"m">>, msg |-> Hi]>>
    /\ results[2].emitted = <<[id |-> <<"m">>, msg |-> Hi]>>

\* what the claims call a malformed name
NotANumber(label) ==
    \/ label = <<>>
    \/ \E i \in 1..Len(label) : ~IsDigit(label[i]) /\ ~(i = 1 /\ label[i] \in {"+", "-"})

Malformed(domain) ==
    LET suffix == <<".">> \o TopDomain
        labels == Split(SubSeq(domain, 1, Len(domain) - Len(suffix)), ".")
    IN  \/ ~HasSuffix(domain, suffix)
        \/ Len(labels) < 4
        \/ NotANumber(labels[2])
        \/ NotANumber(labels[3])

\* C6: when the worker handles a malformed name, the store and the outbound
\* queue stay as they are, and the worker is back at its select.
MalformedIsolation ==
    [][(wpc = "lock" /\ wpc' # "lock" /\ Malformed(wdomain)) =>
           /\ fgLists' = fgLists
           /\ Messages' = Messages
           /\ emitted' = emitted
           /\ wpc' = "select"]_vars

\* C6: the worker has handled a malformed name, the last one it received,
\* with a transfer in the store, and is back at its select
MalformedWitness ==
    /\ taken >= 2
    /\ Malformed(pushed[taken])
    /\ wpc = "select"
    /\ wdomain = pushed[taken]
    /\ fgLists # <<>>

\* C8: the worker never panics while handling a name.
WorkerNeverPanics == wpc # "panic"

\* C10: both channels hold at most QueueCap items; a handler at its push
\* with the channel full stays there; a handler leaves its push only by
\* appending its name; the worker leaves its send only by appending its
\* payload; the names sent that the worker has not received are the channel's
\* content, in order, and the payloads on Messages are the last ones emitted.
BlockingBackpressure ==
    /\ [](Len(domains) <= QueueCap /\ Len(Messages) <= QueueCap)
    /\ [](/\ taken <= Len(pushed)
          /\ domains = SubSeq(pushed, taken + 1, Len(pushed))
          /\ Len(Messages) <= Len(emitted)
          /\ Messages = [i \in 1..Len(Messages) |->
                            emitted[Len(emitted) - Len(Messages) + i].msg])
    /\ [][\A h \in Handlers :
             /\ (hpc[h] = "push" /\ Len(domains) = QueueCap) => hpc'[h] = "push"
             /\ (hpc[h] = "push" /\ hpc'[h] # "push") =>
                    domains' = Append(domains, hreq[h].name)]_vars
    /\ [][(wpc = "send" /\ Len(Messages) = QueueCap) => wpc' = "send"]_vars
    /\ [][(wpc = "send" /\ wpc' # "send") => Messages' = Append(Messages, wmsg)]_vars

\* C10: the worker is blocked sending a payload on the full outbound channel
BlockedSendWitness == wpc = "send" /\ Len(Messages) = QueueCap

Ids == {<<"m">>, <<"n">>}

\* the transfer of id is in the store past its expiresAt, and is not the one
\* the worker has assembled and is sending
Stale(id) ==
    /\ id \in DOMAIN fgLists
    /\ fgLists[id].expiresAt < now
    /\ ~(wpc = "send" /\ parseDomain(TopDomain, wdomain).fg.id = id)

\* C5: a transfer that is past its expiresAt and not complete is removed by
\* the sweep whose tick has come, also when the outbound queue is full: the
\* sweep gets the lock, or the worker that holds it can go on and release it.
ExpiredIsSwept ==
    \A id \in Ids :
        (Stale(id) /\ spc = "lock") => (fgListsLock = "free" \/ CanListenSend)

\* C7: every question handed to ServeDNS gets its answer whatever happens on
\* the ingestion side: the handler can take its next step, or the worker,
\* which alone makes room in the inbound queue, can take one.
AlwaysAnswers ==
    \A h \in Handlers :
        hpc[h] # "idle" =>
            \/ CanServePush(h) \/ CanServeReply(h)
            \/ CanListenRecv \/ CanListenHandle \/ CanListenSend

\* C9: once Cancel is closed, the worker and the sweep both come to their
\* end: each has ended, or can take a step, or (the sweep) waits for a lock
\* whose holder can take one.
CancelTerminates ==
    Cancel = "closed" =>
        /\ wpc = "done" \/ CanWorkerStep
        /\ spc = "done" \/ CanSweepStep \/ CanWorkerStep

\* C11: a call of ServeDNS goes to the send on tun.domains exactly when its
\* question has type A; a handler leaves the send only by appending the
\* question's name; no step of a call whose question has another type
\* changes tun.domains, the store or tun.Messages.
OnlyAddressQuestions ==
    /\ [](\A h \in Handlers : hpc[h] = "push" => hreq[h].hasq /\ hreq[h].qtype = "A")
    /\ [][\A h \in Handlers :
             /\ (hpc[h] = "idle" /\ hpc'[h] # "idle") =>
                    (hpc'[h] = "push" <=> hreq'[h].qtype = "A")
             /\ (hpc[h] = "idle" /\ hpc'[h] = "reply") => pushed' = pushed
             /\ (hpc[h] = "push" /\ hpc'[h] # "push") =>
                    /\ hpc'[h] = "reply"
                    /\ domains' = Append(domains, hreq[h].name)
                    /\ pushed' = Append(pushed, hreq[h].name)
             /\ (hpc'[h] # hpc[h] /\ hreq'[h].hasq /\ hreq'[h].qtype # "A") =>
                    UNCHANGED <<domains, fgLists, Messages, pushed>>]_vars

\* C11: a question of another type has been answered and nothing was ever
\* sent on tun.domains
OtherTypeAnswered ==
    \E h \in Handlers :
        /\ hreq[h].hasq /\ hreq[h].qtype = "AAAA"
        /\ hpc[h] = "idle"
        /\ Len(replies[h]) = 1
        /\ asked = MaxQueries
        /\ pushed = <<>> /\ domains = <<>> /\ fgLists = <<>> /\ Messages = <<>>

\* C20: a call of ServeDNS with a message that has no question returns at
\* once: the handler is idle again with no reply written, and the step
\* leaves both channels and the store as they are; a call that leaves every
\* handler where it was is such a call.
NoQuestionNoReply ==
    /\ [](\A h \in Handlers : ~hreq[h].hasq => hpc[h] = "idle" /\ replies[h] = <<>>)
    /\ [][\A h \in Handlers :
             (asked' = asked + 1 /\ hreq'[h] # hreq[h] /\ ~hreq'[h].hasq) =>
                 UNCHANGED <<domains, fgLists, Messages, pushed>>]_vars
    /\ [][(asked' = asked + 1 /\ hpc' = hpc) =>
             /\ \E h \in Handlers :
                    hpc[h] = "idle" /\ ~hreq'[h].hasq /\ replies'[h] = <<>>
             /\ UNCHANGED <<domains, fgLists, Messages, pushed>>]_vars

\* C20: the last request was a message without a question, handled after a
\* name was stored, and the store still holds that name's transfer
NoQuestionHandled ==
    \E h \in Handlers :
        /\ asked = MaxQueries
        /\ ~hreq[h].hasq
        /\ hpc[h] = "idle"
        /\ replies[h] = <<>>
        /\ Len(pushed) = MaxQueries - 1
        /\ fgLists # <<>>

\* a label that is a non-negative decimal integer: digits only, at least one
IsNatural(label) == label # <<>> /\ \A i \in 1..Len(label) : IsDigit(label[i])

\* C12: the name the worker is handling, when it is under the top domain
\* with at least 4 labels and its size or offset label is no non-negative
\* decimal integer ("-1" included), is rejected by parseDomain; and every
\* fragment in the store has totalSize >= 0 and offset >= 0.
ParseRejectsNonNatural ==
    /\ wpc = "lock" =>
           LET suffix == <<".">> \o TopDomain
               labels == Split(TrimSuffix(wdomain, suffix), ".")
           IN  (/\ HasSuffix(wdomain, suffix)
                /\ Len(labels) >= 4
                /\ ~IsNatural(labels[2]) \/ ~IsNatural(labels[3]))
                   => parseDomain(TopDomain, wdomain).err
    /\ \A id \in DOMAIN fgLists :
           /\ fgLists[id].totalSize >= 0
           /\ \A o \in DOMAIN fgLists[id].fragments :
                  o >= 0 /\ fgLists[id].fragments[o].totalSize >= 0

\* number of names among the first k sent that are name
RECURSIVE CountOf(_, _, _)
CountOf(seq, k, name) ==
    IF k = 0 THEN 0
    ELSE CountOf(seq, k - 1, name) + (IF seq[k] = name THEN 1 ELSE 0)

\* C13: when the worker has stored a fragment, the bytes held reach the
\* declared size and the worker is back at its select without a send (the
\* assembly failed), tun.Messages and the emissions are unchanged and the
\* list is in the store with the new fragment at its offset, the fragments
\* it had at other offsets, and expiresAt = now + Expiration, the other ids
\* untouched; and every fragment that mends the transfer has led to one
\* emission for the id and to the id leaving the store.
FailedAssemblyKeeps ==
    /\ [][LET fg == parseDomain(TopDomain, wdomain).fg
              old == IF fg.id \in DOMAIN fgLists THEN fgLists[fg.id].fragments ELSE <<>>
              new == (fg.offset :> fg) @@ old
          IN  (/\ wpc = "lock" /\ wpc' = "select"
               /\ ~parseDomain(TopDomain, wdomain).err
               /\ TotalBytes(new) >= fg.totalSize) =>
                  /\ Messages' = Messages
                  /\ emitted' = emitted
                  /\ fg.id \in DOMAIN fgLists'
                  /\ fgLists'[fg.id] = [totalSize |-> fg.totalSize, fragments |-> new,
                                        expiresAt |-> now + Expiration]
                  /\ \A id \in DOMAIN fgLists \ {fg.id} :
                         id \in DOMAIN fgLists' /\ fgLists'[id] = fgLists[id]]_vars
    /\ [](wpc = "select" =>
             /\ Len(emitted) = CountOf(pushed, taken, Fix)
             /\ \A i \in 1..Len(emitted) : emitted[i].id = <<"n">>
             /\ (taken >= 1 /\ pushed[taken] = Fix) => <<"n">> \notin DOMAIN fgLists)

\* C13: the fragment that does not decode, then with no time passed the
\* fragment that mends the transfer: "hi" emitted once, the store empty
RetryWitness ==
    /\ pushed = <<Undecodable, Fix>>
    /\ taken = 2
    /\ wpc = "select"
    /\ now = 0
    /\ assemble([totalSize |-> 4,
                 fragments |-> (0 :> parseDomain(TopDomain, Undecodable).fg),
                 expiresAt |-> Expiration]) = {[kind |-> "err", msg |-> <<>>]}
    /\ emitted = <<[id |-> <<"n">>, msg |-> Hi]>>
    /\ fgLists = <<>>

\* C14: whenever the lock is free, every list in the store has fewer bytes
\* than its totalSize and an expiresAt that is not before the current time.
StoreInvariant ==
    fgListsLock = "free" =>
        \A id \in DOMAIN fgLists :
            /\ TotalBytes(fgLists[id].fragments) < fgLists[id].totalSize
            /\ ~(fgLists[id].expiresAt < now)

\* C14 as amended: whenever the lock is free, every list in the store holds
\* a fragment and belongs to a transfer that was not emitted: it has fewer
\* bytes than its totalSize, or its assembly fails; and when a sweep has
\* run, every list left has an expiresAt that is not before the sweep's now.
StoreHoldsUnfinished ==
    /\ [](fgListsLock = "free" =>
             \A id \in DOMAIN fgLists :
                 /\ DOMAIN fgLists[id].fragments # {}
                 /\ \/ TotalBytes(fgLists[id].fragments) < fgLists[id].totalSize
                    \/ \E r \in assemble(fgLists[id]) : r.kind = "err")
    /\ [][(spc = "lock" /\ spc' = "select") =>
             \A id \in DOMAIN fgLists' : ~(fgLists'[id].expiresAt < now)]_vars

\* C14: with the lock free and both goroutines at their select, the store
\* holds a list whose bytes reach its totalSize and which is past its
\* expiresAt
UnfinishedWitness ==
    /\ fgListsLock = "free"
    /\ wpc = "select"
    /\ spc = "select"
    /\ <<"n">> \in DOMAIN fgLists
    /\ TotalBytes(fgLists[<<"n">>].fragments) >= fgLists[<<"n">>].totalSize
    /\ fgLists[<<"n">>].expiresAt < now

\* C15: an id leaves the store only in the worker's step that sends its
\* payload on tun.Messages, made with the lock held and releasing it, or in
\* a sweep, with nothing sent and only if its expiresAt is before now; a
\* sweep leaves exactly the entries with expiresAt >= now, unchanged; the
\* sweep runs only while the worker does not hold the lock, and the worker
\* holds it exactly while it is at its send.
TwoWaysOut ==
    /\ [][\A id \in DOMAIN fgLists :
             id \notin DOMAIN fgLists' =>
                 \/ /\ wpc = "send" /\ wpc' = "select"
                    /\ fgListsLock = "worker" /\ fgListsLock' = "free"
                    /\ parseDomain(TopDomain, wdomain).fg.id = id
                    /\ Messages' = Append(Messages, wmsg)
                    /\ emitted' = Append(emitted, [id |-> id, msg |-> wmsg])
                 \/ /\ spc = "lock" /\ spc' = "select"
                    /\ fgLists[id].expiresAt < now
                    /\ Messages' = Messages
                    /\ emitted' = emitted]_vars
    /\ [][(spc = "lock" /\ spc' = "select") =>
             /\ fgListsLock = "free" /\ fgListsLock' = "free"
             /\ wpc # "send" /\ wpc' = wpc
             /\ DOMAIN fgLists' = {id \in DOMAIN fgLists : fgLists[id].expiresAt >= now}
             /\ \A id \in DOMAIN fgLists' : fgLists'[id] = fgLists[id]]_vars
    /\ [](fgListsLock = "worker" <=> wpc = "send")

\* C15: a sweep has removed the transfer m, which was past its expiresAt,
\* with nothing emitted, and has kept the transfer n, which was not
SweptWitness ==
    /\ pushed = <<Half1, Past>>
    /\ taken = 2
    /\ wpc = "select"
    /\ spc = "select"
    /\ DOMAIN fgLists = {<<"n">>}
    /\ fgLists[<<"n">>].expiresAt >= now
    /\ emitted = <<>>

\* C16: the worker's handling of a name that parses leaves the list of its
\* id with expiresAt = now + Expiration, which is not earlier than the
\* expiresAt it had, also when that one was already before now, and with
\* the fragments it had at other offsets; no step lowers the expiresAt of an
\* id that stays in the store, and a sweep leaves it as it is.
SlidingExpiry ==
    /\ [][LET p == parseDomain(TopDomain, wdomain)
              id == p.fg.id
          IN  (wpc = "lock" /\ wpc' # "lock" /\ ~p.err) =>
                  /\ id \in DOMAIN fgLists'
                  /\ fgLists'[id].expiresAt = now + Expiration
                  /\ id \in DOMAIN fgLists =>
                         /\ fgLists'[id].expiresAt >= fgLists[id].expiresAt
                         /\ \A o \in DOMAIN fgLists[id].fragments \ {p.fg.offset} :
                                /\ o \in DOMAIN fgLists'[id].fragments
                                /\ fgLists'[id].fragments[o] = fgLists[id].fragments[o]]_vars
    /\ [][\A id \in DOMAIN fgLists \cap DOMAIN fgLists' :
             /\ fgLists'[id].expiresAt >= fgLists[id].expiresAt
             /\ (spc = "lock" /\ spc' = "select") =>
                    fgLists'[id].expiresAt = fgLists[id].expiresAt]_vars

\* C16: the second half of "hi" has been stored at the last time of the
\* clock next to the first half, and the list expires Expiration later
RefreshedWitness ==
    /\ pushed = <<Half1, Half2>>
    /\ taken = 2
    /\ wpc = "send"
    /\ now = MaxTime
    /\ <<"m">> \in DOMAIN fgLists
    /\ DOMAIN fgLists[<<"m">>].fragments = {0, 4}
    /\ fgLists[<<"m">>].expiresAt = MaxTime + Expiration

CompletionPredicate ==
    [][LET p == parseDomain(TopDomain, wdomain)
           fg == p.fg
           old == IF fg.id \in DOMAIN fgLists THEN fgLists[fg.id].fragments ELSE <<>>
           new == (fg.offset :> fg) @@ old
           fl == [totalSize |-> fg.totalSize, fragments |-> new,
                  expiresAt |-> now + Expiration]
       IN  (wpc = "lock" /\ wpc' # "lock" /\ ~p.err) =>
               /\ fg.id \in DOMAIN fgLists'
               /\ fgLists'[fg.id].totalSize = fg.totalSize
               /\ fgLists'[fg.id].fragments = new
               /\ IF TotalBytes(new) >= fg.totalSize
                  THEN \E r \in assemble(fl) :
                           \/ r.kind = "ok" /\ wpc' = "send" /\ wmsg' = r.msg
                           \/ r.kind = "err" /\ wpc' = "select" /\ wmsg' = wmsg
                           \/ r.kind = "panic" /\ wpc' = "panic"
                  ELSE wpc' = "select" /\ wmsg' = wmsg]_vars

\* C18: after a fragment of 4 characters declaring the size 4, whose
\* assembly fails, the second half of "hi" declaring the size 8 brings the
\* sum to 8 and "hi" is emitted; under the size 4 its offset would be past
\* the end
LastSizeWitness ==
    /\ Finished
    /\ plan.kind = "perm"
    /\ plan.scripts[2] = <<FormatName(<<"m">>, 4, 0, SubSeq(Encode(Hi), 1, 4)), Half2>>
    /\ results[2].emitted = <<[id |-> <<"m">>, msg |-> Hi]>>
    /\ results[2].store = <<>>

\* the consumer can make room on tun.Messages for the worker's send
CanConsumeForSend == Running /\ wpc = "send" /\ Messages # <<>>

\* C19: while Cancel is open, nothing waits for ever with a consumer that
\* keeps receiving: a handler at its send can make it, or the worker can take
\* a step, or the consumer can make room for the worker's send; the same
\* for a name waiting on tun.domains; and a sweep at its Lock can take the
\* lock, or the worker that holds it can send, or the consumer can make
\* room for that send.
NeverStuck ==
    Cancel = "open" =>
        /\ \A h \in Handlers :
               hpc[h] = "push" => CanServePush(h) \/ CanWorkerStep \/ CanConsumeForSend
        /\ domains # <<>> => CanWorkerStep \/ CanConsumeForSend
        /\ spc = "lock" => CanSweepRun \/ CanListenSend \/ CanConsumeForSend

====
